---- MODULE Spec2Model ----
(***************************************************************************)
(* Model of the simple-option CosmWasm contract (src/src/contract.rs,      *)
(* src/src/state.rs, src/src/msg.rs).                                      *)
(*                                                                         *)
(* The contract keeps one State record under the storage key "config".     *)
(* instantiate creates it, execute_transfer changes its owner,             *)
(* execute_execute and execute_burn consume it, query_config reads it.     *)
(* Each handler is an operator from (storage, env, info, msg) to the new   *)
(* storage and the Result the handler returns; each action applies one     *)
(* handler to inputs drawn from small sets and records the request, the    *)
(* storage before it and the result.                                       *)
(***************************************************************************)
EXTENDS Integers, Sequences, FiniteSets, TLC

(***************************************************************************)
(* Bounds and input domains                                                *)
(***************************************************************************)

\* env.block.height ranges over 0..MaxHeight, and so does msg.expires: every
\* expiry a record can carry is a height the ledger reaches.
MaxHeight == 2

ExpiresValues == 0..MaxHeight

\* info.sender: account identities (Addr), as in the tests' mock_info names.
Addrs == {"creator", "owner", "anyone"}

\* The sender of the instantiate request. The handlers never look inside an
\* Addr, so which identity creates the option is immaterial: it is named
\* "creator", as in the tests.
Creators == {"creator"}

\* ExecuteMsg::Transfer.recipient is free text: the identities and one
\* string the address validation rejects (the empty string).
Recipients == Addrs \cup {""}

\* Coin { denom, amount } values, as in the tests: coins(1, "BTC"),
\* coins(40, "ETH"), coins(39, "ETH").
Coins ==
    { [denom |-> "BTC", amount |-> 1],
      [denom |-> "ETH", amount |-> 39],
      [denom |-> "ETH", amount |-> 40] }

\* Vec<Coin> values in which a denomination appears at most once, in any
\* list order: what InstantiateMsg.counter_offer can carry.
CoinLists ==
    {<<>>} \cup { <<c>> : c \in Coins }
           \cup { <<c, d>> : <<c, d>> \in { p \in Coins \X Coins : p[1].denom # p[2].denom } }

DenomRank(denom) == IF denom = "BTC" THEN 1 ELSE 2

\* info.funds as the bank module hands them over: sorted by denomination.
FundsLists ==
    { l \in CoinLists : Len(l) = 2 => DenomRank(l[1].denom) < DenomRank(l[2].denom) }

\* The (denomination, amount) pairs of a Vec<Coin>, as a set.
CoinSet(l) == { l[i] : i \in 1..Len(l) }

(***************************************************************************)
(* Values                                                                  *)
(***************************************************************************)

\* Option<T>: the empty sequence or a one-element sequence.
None == <<>>

Some(x) == <<x>>

\* const CONTRACT_NAME
CONTRACT_NAME == "crates.io:simple-option"

\* struct State
State(creator, owner, collateral, counter_offer, expires) ==
    [ creator       |-> creator,
      owner         |-> owner,
      collateral    |-> collateral,
      counter_offer |-> counter_offer,
      expires       |-> expires ]

\* BankMsg::Send { to_address, amount }
BankSend(to_address, amount) == [to_address |-> to_address, amount |-> amount]

\* Result<Response, ContractError>: Ok carries the messages and attributes
\* (and, for the query, the data); Err carries the error as a tuple whose
\* first element is the variant name.
Ok(messages, attributes, data) ==
    [ ok |-> TRUE, err |-> <<>>, messages |-> messages,
      attributes |-> attributes, data |-> data ]

Err(e) ==
    [ ok |-> FALSE, err |-> e, messages |-> <<>>,
      attributes |-> <<>>, data |-> None ]

\* What a handler call yields: the storage it leaves and the Result.
Outcome(storage, result) == [storage |-> storage, result |-> result]

\* deps.storage before instantiation: neither key is set.
EmptyStorage == [config |-> None, contract_info |-> None]

\* deps.api.addr_validate: rejects the empty string, else yields the Addr.
addr_validate(recipient) ==
    IF recipient = ""
    THEN [ok |-> FALSE, addr |-> ""]
    ELSE [ok |-> TRUE, addr |-> recipient]

(***************************************************************************)
(* Handlers                                                                *)
(***************************************************************************)

\* instantiate with the expiry test off by one: expires = height is accepted.
instantiate_expiry_exclusive(storage, height, sender, funds, counter_offer, expires) ==
    IF expires < height
    THEN Outcome(storage, Err(<<"OptionExpired", expires>>))
    ELSE Outcome(
           [ contract_info |-> Some(CONTRACT_NAME),
             config        |-> Some(State(sender, sender, funds, counter_offer, expires)) ],
           Ok(<<>>, <<>>, None))

\* instantiate with the two asset lists stored in each other's field.
instantiate_assets_swapped(storage, height, sender, funds, counter_offer, expires) ==
    IF expires <= height
    THEN Outcome(storage, Err(<<"OptionExpired", expires>>))
    ELSE Outcome(
           [ contract_info |-> Some(CONTRACT_NAME),
             config        |-> Some(State(sender, sender, counter_offer, funds, expires)) ],
           Ok(<<>>, <<>>, None))

\* pub fn instantiate
instantiate(storage, height, sender, funds, counter_offer, expires) ==
    IF expires <= height
    THEN Outcome(storage, Err(<<"OptionExpired", expires>>))
    ELSE Outcome(
           [ contract_info |-> Some(CONTRACT_NAME),
             config        |-> Some(State(sender, sender, funds, counter_offer, expires)) ],
           Ok(<<>>, <<>>, None))

\* execute_transfer without the CONFIG.save.
execute_transfer_not_saved(storage, height, sender, recipient) ==
    IF storage.config = None
    THEN Outcome(storage, Err(<<"NotFound">>))
    ELSE LET state == storage.config[1]
             validated == addr_validate(recipient)
         IN  IF sender # state.owner
             THEN Outcome(storage, Err(<<"Unauthorized">>))
             ELSE IF ~validated.ok
             THEN Outcome(storage, Err(<<"Std", "addr_validate">>))
             ELSE Outcome(
                    storage,
                    Ok(<<>>, << <<"action", "transfer">>, <<"owner", recipient>> >>, None))

\* execute_transfer saving the unvalidated recipient before validating it.
execute_transfer_save_first(storage, height, sender, recipient) ==
    IF storage.config = None
    THEN Outcome(storage, Err(<<"NotFound">>))
    ELSE LET state == storage.config[1]
             validated == addr_validate(recipient)
             saved == [storage EXCEPT !.config = Some([state EXCEPT !.owner = recipient])]
         IN  IF sender # state.owner
             THEN Outcome(storage, Err(<<"Unauthorized">>))
             ELSE IF ~validated.ok
             THEN Outcome(saved, Err(<<"Std", "addr_validate">>))
             ELSE Outcome(
                    saved,
                    Ok(<<>>, << <<"action", "transfer">>, <<"owner", recipient>> >>, None))

\* execute_transfer assigning the recipient to creator as well as to owner.
execute_transfer_sets_creator(storage, height, sender, recipient) ==
    IF storage.config = None
    THEN Outcome(storage, Err(<<"NotFound">>))
    ELSE LET state == storage.config[1]
             validated == addr_validate(recipient)
         IN  IF sender # state.owner
             THEN Outcome(storage, Err(<<"Unauthorized">>))
             ELSE IF ~validated.ok
             THEN Outcome(storage, Err(<<"Std", "addr_validate">>))
             ELSE Outcome(
                    [storage EXCEPT !.config =
                       Some([state EXCEPT !.owner = validated.addr,
                                          !.creator = validated.addr])],
                    Ok(<<>>, << <<"action", "transfer">>, <<"owner", recipient>> >>, None))

\* execute_transfer refusing to move an expired option.
execute_transfer_checks_expiry(storage, height, sender, recipient) ==
    IF storage.config = None
    THEN Outcome(storage, Err(<<"NotFound">>))
    ELSE LET state == storage.config[1]
             validated == addr_validate(recipient)
         IN  IF sender # state.owner
             THEN Outcome(storage, Err(<<"Unauthorized">>))
             ELSE IF height >= state.expires
             THEN Outcome(storage, Err(<<"OptionExpired", state.expires>>))
             ELSE IF ~validated.ok
             THEN Outcome(storage, Err(<<"Std", "addr_validate">>))
             ELSE Outcome(
                    [storage EXCEPT !.config = Some([state EXCEPT !.owner = validated.addr])],
                    Ok(<<>>, << <<"action", "transfer">>, <<"owner", recipient>> >>, None))

\* pub fn execute_transfer (height is the unused _env.block.height)
execute_transfer(storage, height, sender, recipient) ==
    IF storage.config = None
    THEN Outcome(storage, Err(<<"NotFound">>))
    ELSE LET state == storage.config[1]
             validated == addr_validate(recipient)
         IN  IF sender # state.owner
             THEN Outcome(storage, Err(<<"Unauthorized">>))
             ELSE IF ~validated.ok
             THEN Outcome(storage, Err(<<"Std", "addr_validate">>))
             ELSE Outcome(
                    [storage EXCEPT !.config = Some([state EXCEPT !.owner = validated.addr])],
                    Ok(<<>>, << <<"action", "transfer">>, <<"owner", recipient>> >>, None))

\* execute_execute with the two BankMsg::Send pushed in the reverse order.
execute_execute_reversed(storage, height, sender, funds) ==
    IF storage.config = None
    THEN Outcome(storage, Err(<<"NotFound">>))
    ELSE LET state == storage.config[1]
         IN  IF sender # state.owner
             THEN Outcome(storage, Err(<<"Unauthorized">>))
             ELSE IF height >= state.expires
             THEN Outcome(storage, Err(<<"OptionExpired", state.expires>>))
             ELSE IF funds # state.counter_offer
             THEN Outcome(storage,
                          Err(<<"CounterOfferMismatch", funds, state.counter_offer>>))
             ELSE Outcome(
                    [storage EXCEPT !.config = None],
                    Ok(<< BankSend(state.owner, state.collateral),
                          BankSend(state.creator, state.counter_offer) >>,
                       << <<"action", "execute">> >>, None))

\* execute_execute with the sender compared to the creator, not the owner.
execute_execute_creator_check(storage, height, sender, funds) ==
    IF storage.config = None
    THEN Outcome(storage, Err(<<"NotFound">>))
    ELSE LET state == storage.config[1]
         IN  IF sender # state.creator
             THEN Outcome(storage, Err(<<"Unauthorized">>))
             ELSE IF height >= state.expires
             THEN Outcome(storage, Err(<<"OptionExpired", state.expires>>))
             ELSE IF funds # state.counter_offer
             THEN Outcome(storage,
                          Err(<<"CounterOfferMismatch", funds, state.counter_offer>>))
             ELSE Outcome(
                    [storage EXCEPT !.config = None],
                    Ok(<< BankSend(state.creator, state.counter_offer),
                          BankSend(state.owner, state.collateral) >>,
                       << <<"action", "execute">> >>, None))

\* execute_execute with the expiry test off by one: height = expires passes.
execute_execute_expiry_exclusive(storage, height, sender, funds) ==
    IF storage.config = None
    THEN Outcome(storage, Err(<<"NotFound">>))
    ELSE LET state == storage.config[1]
         IN  IF sender # state.owner
             THEN Outcome(storage, Err(<<"Unauthorized">>))
             ELSE IF height > state.expires
             THEN Outcome(storage, Err(<<"OptionExpired", state.expires>>))
             ELSE IF funds # state.counter_offer
             THEN Outcome(storage,
                          Err(<<"CounterOfferMismatch", funds, state.counter_offer>>))
             ELSE Outcome(
                    [storage EXCEPT !.config = None],
                    Ok(<< BankSend(state.creator, state.counter_offer),
                          BankSend(state.owner, state.collateral) >>,
                       << <<"action", "execute">> >>, None))

\* execute_execute with the funds test comparing the denominations only.
execute_execute_denoms_only(storage, height, sender, funds) ==
    IF storage.config = None
    THEN Outcome(storage, Err(<<"NotFound">>))
    ELSE LET state == storage.config[1]
             Denoms(l) == [i \in 1..Len(l) |-> l[i].denom]
         IN  IF sender # state.owner
             THEN Outcome(storage, Err(<<"Unauthorized">>))
             ELSE IF height >= state.expires
             THEN Outcome(storage, Err(<<"OptionExpired", state.expires>>))
             ELSE IF Denoms(funds) # Denoms(state.counter_offer)
             THEN Outcome(storage,
                          Err(<<"CounterOfferMismatch", funds, state.counter_offer>>))
             ELSE Outcome(
                    [storage EXCEPT !.config = None],
                    Ok(<< BankSend(state.creator, state.counter_offer),
                          BankSend(state.owner, state.collateral) >>,
                       << <<"action", "execute">> >>, None))

\* execute_execute without the CONFIG.remove.
execute_execute_keeps_record(storage, height, sender, funds) ==
    IF storage.config = None
    THEN Outcome(storage, Err(<<"NotFound">>))
    ELSE LET state == storage.config[1]
         IN  IF sender # state.owner
             THEN Outcome(storage, Err(<<"Unauthorized">>))
             ELSE IF height >= state.expires
             THEN Outcome(storage, Err(<<"OptionExpired", state.expires>>))
             ELSE IF funds # state.counter_offer
             THEN Outcome(storage,
                          Err(<<"CounterOfferMismatch", funds, state.counter_offer>>))
             ELSE Outcome(
                    storage,
                    Ok(<< BankSend(state.creator, state.counter_offer),
                          BankSend(state.owner, state.collateral) >>,
                       << <<"action", "execute">> >>, None))

\* execute_execute with the expiry test made before the owner test.
execute_execute_expiry_first(storage, height, sender, funds) ==
    IF storage.config = None
    THEN Outcome(storage, Err(<<"NotFound">>))
    ELSE LET state == storage.config[1]
         IN  IF height >= state.expires
             THEN Outcome(storage, Err(<<"OptionExpired", state.expires>>))
             ELSE IF sender # state.owner
             THEN Outcome(storage, Err(<<"Unauthorized">>))
             ELSE IF funds # state.counter_offer
             THEN Outcome(storage,
                          Err(<<"CounterOfferMismatch", funds, state.counter_offer>>))
             ELSE Outcome(
                    [storage EXCEPT !.config = None],
                    Ok(<< BankSend(state.creator, state.counter_offer),
                          BankSend(state.owner, state.collateral) >>,
                       << <<"action", "execute">> >>, None))

\* execute_execute with the CONFIG.remove made before the funds test.
execute_execute_remove_early(storage, height, sender, funds) ==
    IF storage.config = None
    THEN Outcome(storage, Err(<<"NotFound">>))
    ELSE LET state == storage.config[1]
         IN  IF sender # state.owner
             THEN Outcome(storage, Err(<<"Unauthorized">>))
             ELSE IF height >= state.expires
             THEN Outcome(storage, Err(<<"OptionExpired", state.expires>>))
             ELSE IF funds # state.counter_offer
             THEN Outcome([storage EXCEPT !.config = None],
                          Err(<<"CounterOfferMismatch", funds, state.counter_offer>>))
             ELSE Outcome(
                    [storage EXCEPT !.config = None],
                    Ok(<< BankSend(state.creator, state.counter_offer),
                          BankSend(state.owner, state.collateral) >>,
                       << <<"action", "execute">> >>, None))

\* pub fn execute_execute
execute_execute(storage, height, sender, funds) ==
    IF storage.config = None
    THEN Outcome(storage, Err(<<"NotFound">>))
    ELSE LET state == storage.config[1]
         IN  IF sender # state.owner
             THEN Outcome(storage, Err(<<"Unauthorized">>))
             ELSE IF height >= state.expires
             THEN Outcome(storage, Err(<<"OptionExpired", state.expires>>))
             ELSE IF funds # state.counter_offer
             THEN Outcome(storage,
                          Err(<<"CounterOfferMismatch", funds, state.counter_offer>>))
             ELSE Outcome(
                    [storage EXCEPT !.config = None],
                    Ok(<< BankSend(state.creator, state.counter_offer),
                          BankSend(state.owner, state.collateral) >>,
                       << <<"action", "execute">> >>, None))

\* execute_burn with the expiry test inverted: reclaim passes before expiry.
execute_burn_expiry_inverted(storage, height, sender) ==
    IF storage.config = None
    THEN Outcome(storage, Err(<<"NotFound">>))
    ELSE LET state == storage.config[1]
         IN  IF height >= state.expires
             THEN Outcome(storage, Err(<<"OptionNotExpired", state.expires>>))
             ELSE Outcome(
                    [storage EXCEPT !.config = None],
                    Ok(<< BankSend(state.creator, state.collateral) >>,
                       << <<"action", "burn">> >>, None))

\* execute_burn releasing the collateral to the owner, not the creator.
execute_burn_to_owner(storage, height, sender) ==
    IF storage.config = None
    THEN Outcome(storage, Err(<<"NotFound">>))
    ELSE LET state == storage.config[1]
         IN  IF height < state.expires
             THEN Outcome(storage, Err(<<"OptionNotExpired", state.expires>>))
             ELSE Outcome(
                    [storage EXCEPT !.config = None],
                    Ok(<< BankSend(state.owner, state.collateral) >>,
                       << <<"action", "burn">> >>, None))

\* execute_burn with the expiry test off by one: height = expires is rejected.
execute_burn_expiry_inclusive(storage, height, sender) ==
    IF storage.config = None
    THEN Outcome(storage, Err(<<"NotFound">>))
    ELSE LET state == storage.config[1]
         IN  IF height <= state.expires
             THEN Outcome(storage, Err(<<"OptionNotExpired", state.expires>>))
             ELSE Outcome(
                    [storage EXCEPT !.config = None],
                    Ok(<< BankSend(state.creator, state.collateral) >>,
                       << <<"action", "burn">> >>, None))

\* execute_burn without the CONFIG.remove.
execute_burn_keeps_record(storage, height, sender) ==
    IF storage.config = None
    THEN Outcome(storage, Err(<<"NotFound">>))
    ELSE LET state == storage.config[1]
         IN  IF height < state.expires
             THEN Outcome(storage, Err(<<"OptionNotExpired", state.expires>>))
             ELSE Outcome(
                    storage,
                    Ok(<< BankSend(state.creator, state.collateral) >>,
                       << <<"action", "burn">> >>, None))

\* pub fn execute_burn
execute_burn(storage, height, sender) ==
    IF storage.config = None
    THEN Outcome(storage, Err(<<"NotFound">>))
    ELSE LET state == storage.config[1]
         IN  IF height < state.expires
             THEN Outcome(storage, Err(<<"OptionNotExpired", state.expires>>))
             ELSE Outcome(
                    [storage EXCEPT !.config = None],
                    Ok(<< BankSend(state.creator, state.collateral) >>,
                       << <<"action", "burn">> >>, None))

\* query_config answering with the creator in the owner field.
query_config_owner_is_creator(storage) ==
    IF storage.config = None
    THEN Outcome(storage, Err(<<"NotFound">>))
    ELSE Outcome(storage,
                 Ok(<<>>, <<>>,
                    Some([storage.config[1] EXCEPT !.owner = storage.config[1].creator])))

\* fn query_config
query_config(storage) ==
    IF storage.config = None
    THEN Outcome(storage, Err(<<"NotFound">>))
    ELSE Outcome(storage, Ok(<<>>, <<>>, Some(storage.config[1])))

(***************************************************************************)
(* State                                                                   *)
(***************************************************************************)

VARIABLES
    storage,       \* deps.storage: the "config" item and cw2's "contract_info"
    height,        \* env.block.height of the ledger
    instantiated,  \* the runtime has run instantiate successfully
    created_at,    \* env.block.height of the successful instantiate, or -1
    settled,       \* a successful execute_execute or execute_burn has happened
    created,       \* the State the successful instantiate saved, or None
    emitted,       \* every BankMsg::Send returned so far, in order
    received,      \* the funds attached to the successful requests so far
    req,           \* the last request
    pre,           \* deps.storage before the last request
    res            \* the Result of the last request

vars == <<storage, height, instantiated, created_at, settled, created, emitted,
          received, req, pre, res>>

\* A request: the entry point, info.sender, info.funds, env.block.height and
\* the message fields (unused fields hold a default).
Request(op, sender, funds, recipient, counter_offer, expires) ==
    [ op |-> op, sender |-> sender, funds |-> funds, height |-> height,
      recipient |-> recipient, counter_offer |-> counter_offer, expires |-> expires ]

NoRequest == [ op |-> "none", sender |-> "", funds |-> <<>>, height |-> 0,
               recipient |-> "", counter_offer |-> <<>>, expires |-> 0 ]

NoResult == Ok(<<>>, <<>>, None)

Init ==
    /\ storage = EmptyStorage
    /\ height = 0
    /\ instantiated = FALSE
    /\ created_at = -1
    /\ settled = FALSE
    /\ created = None
    /\ emitted = <<>>
    /\ received = <<>>
    /\ req = NoRequest
    /\ pre = EmptyStorage
    /\ res = NoResult

\* The handler's outcome becomes the new storage and the recorded result; the
\* runtime keeps the attached funds of a successful request and is handed the
\* messages of the Response.
Apply(request, outcome) ==
    /\ req' = request
    /\ pre' = storage
    /\ storage' = outcome.storage
    /\ res' = outcome.result
    /\ emitted' = emitted \o outcome.result.messages
    /\ received' = IF outcome.result.ok THEN received \o request.funds ELSE received

\* The runtime calls the instantiate entry point once per contract instance;
\* a failed instantiate leaves no instance behind and may be submitted again.
Instantiate ==
    /\ ~instantiated
    /\ \E sender \in Creators, funds \in FundsLists,
          counter_offer \in CoinLists, expires \in ExpiresValues :
         LET outcome == instantiate(storage, height, sender, funds, counter_offer, expires)
         IN  /\ Apply(Request("instantiate", sender, funds, "", counter_offer, expires),
                      outcome)
             /\ instantiated' = outcome.result.ok
             /\ created_at' = IF outcome.result.ok THEN height ELSE created_at
             /\ created' = IF outcome.result.ok THEN outcome.storage.config ELSE created
    /\ UNCHANGED <<height, settled>>

\* ExecuteMsg::Transfer { recipient }
Transfer ==
    /\ \E sender \in Addrs, recipient \in Recipients :
         Apply(Request("transfer", sender, <<>>, recipient, <<>>, 0),
               execute_transfer(storage, height, sender, recipient))
    /\ UNCHANGED <<height, instantiated, created_at, settled, created>>

\* ExecuteMsg::Execute {}
Execute ==
    /\ \E sender \in Addrs, funds \in FundsLists :
         LET outcome == execute_execute(storage, height, sender, funds)
         IN  /\ Apply(Request("execute", sender, funds, "", <<>>, 0), outcome)
             /\ settled' = (settled \/ outcome.result.ok)
    /\ UNCHANGED <<height, instantiated, created_at, created>>

\* ExecuteMsg::Burn {}
Burn ==
    /\ \E sender \in Addrs :
         LET outcome == execute_burn(storage, height, sender)
         IN  /\ Apply(Request("burn", sender, <<>>, "", <<>>, 0), outcome)
             /\ settled' = (settled \/ outcome.result.ok)
    /\ UNCHANGED <<height, instantiated, created_at, created>>

\* QueryMsg::Config {}
Query ==
    /\ Apply(Request("query", "", <<>>, "", <<>>, 0), query_config(storage))
    /\ UNCHANGED <<height, instantiated, created_at, settled, created>>

\* The ledger produces the next block.
AdvanceHeight ==
    /\ height < MaxHeight
    /\ height' = height + 1
    /\ req' = NoRequest
    /\ pre' = storage
    /\ res' = NoResult
    /\ UNCHANGED <<storage, instantiated, created_at, settled, created, emitted, received>>

Next ==
    \/ Instantiate
    \/ Transfer
    \/ Execute
    \/ Burn
    \/ Query
    \/ AdvanceHeight

Spec == Init /\ [][Next]_vars

\* A reclaim request that succeeds.
Reclaim == Burn /\ res'.ok

\* The ledger keeps producing blocks and a reclaim that can succeed is
\* eventually submitted.
FairSpec == Spec /\ WF_vars(AdvanceHeight) /\ WF_vars(Reclaim)

(***************************************************************************)
(* Shorthands for the properties                                           *)
(***************************************************************************)

\* The record the last request found in storage (only where one existed).
PreState == pre.config[1]

HadRecord == pre.config # None

\* The last request was entry point op, made against an existing record.
OnRecord(op) == req.op = op /\ HadRecord

\* The last request failed with error e: nothing written, nothing emitted.
Rejected(e) ==
    /\ ~res.ok
    /\ res.err = e
    /\ res.messages = <<>>
    /\ res.attributes = <<>>
    /\ storage = pre

(***************************************************************************)
(* Properties                                                              *)
(***************************************************************************)

\* C1: an exercise succeeds exactly when the record exists, the requester is
\* its owner, the height is below expires and the attached funds equal the
\* counter-offer; it then deletes the record and emits exactly two transfers,
\* first counter_offer to creator, second collateral to the current owner.
C1_ExerciseEffects ==
    req.op = "execute" =>
       /\ res.ok <=> ( /\ HadRecord
                        /\ req.sender = PreState.owner
                        /\ req.height < PreState.expires
                        /\ req.funds = PreState.counter_offer )
       /\ res.ok =>
            /\ storage.config = None
            /\ Len(res.messages) = 2
            /\ res.messages[1] = BankSend(PreState.creator, PreState.counter_offer)
            /\ res.messages[2] = BankSend(PreState.owner, PreState.collateral)
            /\ res.attributes = << <<"action", "execute">> >>

\* A successful exercise of a transferred option whose two transfers differ
\* in destination and in assets.
C1_Witness ==
    /\ OnRecord("execute")
    /\ res.ok
    /\ PreState.owner # PreState.creator
    /\ PreState.collateral # PreState.counter_offer
    /\ PreState.collateral # <<>>
    /\ PreState.counter_offer # <<>>

\* C2: a transfer or an exercise by a requester other than the record's owner
\* fails with Unauthorized whatever the height, funds and recipient, and
\* leaves the record unchanged.
C2_OnlyOwner ==
    ( /\ req.op \in {"transfer", "execute"}
      /\ HadRecord
      /\ req.sender # PreState.owner )
    => Rejected(<<"Unauthorized">>)

\* The creator, after transferring the option away, exercises before expiry
\* with the exact counter-offer attached.
C2_Witness ==
    /\ OnRecord("execute")
    /\ req.sender = PreState.creator
    /\ PreState.owner # PreState.creator
    /\ req.height < PreState.expires
    /\ req.funds = PreState.counter_offer
    /\ ~res.ok

\* C3: an exercise by the owner with the exact counter-offer at a height at
\* or past expires fails with OptionExpired{expired: expires} and leaves the
\* record in place.
C3_ExerciseExpired ==
    ( /\ OnRecord("execute")
      /\ req.sender = PreState.owner
      /\ req.height >= PreState.expires
      /\ req.funds = PreState.counter_offer )
    => /\ Rejected(<<"OptionExpired", PreState.expires>>)
       /\ storage.config # None

\* The boundary: the owner exercises with the exact funds at height = expires.
C3_Witness ==
    /\ OnRecord("execute")
    /\ req.sender = PreState.owner
    /\ req.height = PreState.expires
    /\ req.funds = PreState.counter_offer
    /\ ~res.ok

\* C4: an exercise by the owner before expiry whose funds differ from the
\* counter-offer as a set of (denomination, amount) pairs fails with
\* CounterOfferMismatch{offer: funds, counter_offer: stored counter_offer}
\* and leaves the record unchanged.
C4_FundsMismatch ==
    ( /\ OnRecord("execute")
      /\ req.sender = PreState.owner
      /\ req.height < PreState.expires
      /\ CoinSet(req.funds) # CoinSet(PreState.counter_offer) )
    => Rejected(<<"CounterOfferMismatch", req.funds, PreState.counter_offer>>)

\* The owner attaches the right denomination with the wrong amount.
C4_Witness ==
    /\ OnRecord("execute")
    /\ req.sender = PreState.owner
    /\ req.height < PreState.expires
    /\ Len(req.funds) = 1
    /\ Len(PreState.counter_offer) = 1
    /\ req.funds[1].denom = PreState.counter_offer[1].denom
    /\ req.funds[1].amount # PreState.counter_offer[1].amount
    /\ ~res.ok

\* C5: an exercise by the owner before expiry whose funds hold exactly the
\* pairs of a counter-offer of two or more denominations, in whatever list
\* order, succeeds.
C5_FundsAnyOrder ==
    ( /\ OnRecord("execute")
      /\ req.sender = PreState.owner
      /\ req.height < PreState.expires
      /\ Len(PreState.counter_offer) >= 2
      /\ Len(req.funds) = Len(PreState.counter_offer)
      /\ CoinSet(req.funds) = CoinSet(PreState.counter_offer) )
    => res.ok

\* C6: a reclaim at a height below expires fails with
\* OptionNotExpired{expires: expires} for every requester and leaves the
\* record unchanged.
C6_ReclaimEarly ==
    ( /\ OnRecord("burn")
      /\ req.height < PreState.expires )
    => /\ Rejected(<<"OptionNotExpired", PreState.expires>>)
       /\ storage.config # None

\* The creator of a transferred option tries to reclaim before expiry.
C6_Witness ==
    /\ OnRecord("burn")
    /\ req.height < PreState.expires
    /\ req.sender = PreState.creator
    /\ PreState.owner # PreState.creator
    /\ ~res.ok

\* C7: a reclaim at a height at or past expires succeeds for every requester,
\* deletes the record and emits exactly one transfer, of the collateral, to
\* the creator.
C7_ReclaimExpired ==
    ( /\ OnRecord("burn")
      /\ req.height >= PreState.expires )
    => /\ res.ok
       /\ storage.config = None
       /\ res.messages = << BankSend(PreState.creator, PreState.collateral) >>

\* A third party reclaims a transferred option at height = expires.
C7_Witness ==
    /\ OnRecord("burn")
    /\ req.height = PreState.expires
    /\ req.sender # PreState.owner
    /\ req.sender # PreState.creator
    /\ PreState.owner # PreState.creator
    /\ PreState.collateral # <<>>
    /\ res.ok

\* C8: once an exercise or a reclaim has succeeded the record stays absent,
\* and every later query, transfer, exercise and reclaim fails with NotFound
\* and emits nothing.
C8_SettlementTerminal ==
    settled =>
       /\ storage.config = None
       /\ HadRecord => (req.op \in {"execute", "burn"} /\ res.ok)
       /\ (~HadRecord /\ req.op \in {"query", "transfer", "execute", "burn"})
            => Rejected(<<"NotFound">>)

\* A request made after settlement.
C8_Witness ==
    /\ settled
    /\ ~HadRecord
    /\ req.op = "execute"
    /\ req.funds # <<>>
    /\ ~res.ok

\* C9: an instantiate with expires at or below the current height fails with
\* OptionExpired{expired: expires} and stores no record; every stored record
\* has expires above the height of its creation.
C9_CreateExpired ==
    /\ (req.op = "instantiate" /\ req.expires <= req.height)
         => /\ Rejected(<<"OptionExpired", req.expires>>)
            /\ storage = EmptyStorage
    /\ storage.config # None => storage.config[1].expires > created_at

\* The boundary: instantiate with expires equal to a non-zero current height.
C9_Witness ==
    /\ req.op = "instantiate"
    /\ req.expires = req.height
    /\ req.height > 0
    /\ ~res.ok

\* C10: an instantiate with expires above the current height succeeds, emits
\* no transfer and stores creator = owner = requester, collateral = attached
\* funds, counter_offer and expires as given; a query then returns exactly
\* that record.
C10_CreateStores ==
    (req.op = "instantiate" /\ req.expires > req.height)
    => /\ res.ok
       /\ res.messages = <<>>
       /\ storage.config =
            Some(State(req.sender, req.sender, req.funds, req.counter_offer, req.expires))
       /\ query_config(storage).result =
            Ok(<<>>, <<>>,
               Some([ creator       |-> req.sender,
                      owner         |-> req.sender,
                      collateral    |-> req.funds,
                      counter_offer |-> req.counter_offer,
                      expires       |-> req.expires ]))

\* A successful instantiate whose collateral and counter-offer differ.
C10_Witness ==
    /\ req.op = "instantiate"
    /\ res.ok
    /\ req.funds # <<>>
    /\ req.counter_offer # <<>>
    /\ req.funds # req.counter_offer
    /\ req.height > 0

\* C11: a successful transfer changes only the owner, to the recipient: the
\* other four fields and the record's existence are unchanged, no asset
\* transfer is emitted, and afterwards the previous owner (if it is not the
\* recipient) is rejected with Unauthorized on transfer and exercise while the
\* recipient passes the owner check of both.
C11_TransferEffects ==
    (req.op = "transfer" /\ res.ok) =>
       /\ HadRecord
       /\ req.sender = PreState.owner
       /\ storage = [pre EXCEPT !.config = Some([PreState EXCEPT !.owner = req.recipient])]
       /\ storage.config[1].creator = PreState.creator
       /\ storage.config[1].collateral = PreState.collateral
       /\ storage.config[1].counter_offer = PreState.counter_offer
       /\ storage.config[1].expires = PreState.expires
       /\ res.messages = <<>>
       /\ res.attributes = << <<"action", "transfer">>, <<"owner", req.recipient>> >>
       /\ req.recipient # PreState.owner =>
            \A h \in 0..MaxHeight :
               /\ \A r \in Recipients :
                    execute_transfer(storage, h, PreState.owner, r).result
                      = Err(<<"Unauthorized">>)
               /\ \A f \in FundsLists :
                    execute_execute(storage, h, PreState.owner, f).result
                      = Err(<<"Unauthorized">>)
       /\ \A h \in 0..MaxHeight :
            /\ \A r \in Addrs :
                 execute_transfer(storage, h, req.recipient, r).result.ok
            /\ \A f \in FundsLists :
                 execute_execute(storage, h, req.recipient, f).result.err
                   # <<"Unauthorized">>

\* The owner hands a collateralised option to another identity.
C11_Witness ==
    /\ OnRecord("transfer")
    /\ res.ok
    /\ req.recipient # PreState.owner
    /\ PreState.collateral # <<>>
    /\ PreState.counter_offer # <<>>

\* C12: a request that returns an error leaves the storage exactly as it was
\* and returns no message and no attribute.
C12_AllOrNothing ==
    (req.op # "none" /\ ~res.ok) =>
       /\ storage = pre
       /\ res.messages = <<>>
       /\ res.attributes = <<>>
       /\ res.err[1] \in { "OptionExpired", "Unauthorized", "OptionNotExpired",
                           "CounterOfferMismatch", "NotFound", "Std" }

\* The owner's transfer to a malformed recipient is rejected.
C12_Witness ==
    /\ OnRecord("transfer")
    /\ req.sender = PreState.owner
    /\ ~res.ok
    /\ res.err = <<"Std", "addr_validate">>

\* C13: exercise reports the first failing check in the order existence,
\* identity, expiry, funds: a non-owner gets Unauthorized whatever the height
\* and funds, the owner at or past expires gets OptionExpired whatever the
\* funds, and CounterOfferMismatch is returned only to the owner before expiry.
C13_CheckOrder ==
    req.op = "execute" =>
       /\ ~HadRecord => Rejected(<<"NotFound">>)
       /\ (HadRecord /\ req.sender # PreState.owner) => Rejected(<<"Unauthorized">>)
       /\ (HadRecord /\ req.sender = PreState.owner /\ req.height >= PreState.expires)
            => Rejected(<<"OptionExpired", PreState.expires>>)
       /\ (~res.ok /\ res.err[1] = "CounterOfferMismatch")
            => /\ HadRecord
               /\ req.sender = PreState.owner
               /\ req.height < PreState.expires

\* A non-owner exercises past expiry with the wrong funds: all three checks
\* would fail, the first is reported.
C13_Witness ==
    /\ OnRecord("execute")
    /\ req.sender # PreState.owner
    /\ req.height >= PreState.expires
    /\ req.funds # PreState.counter_offer
    /\ res.err = <<"Unauthorized">>

\* The record in storage (only where one exists).
Record == storage.config[1]

HasRecord == storage.config # None

\* C14: while the record exists its creator, collateral, counter_offer and
\* expires are the values written at creation, and the owner differs between
\* two consecutive states only across a successful transfer.
C14_FieldsFixed ==
    /\ [](HasRecord =>
            /\ created # None
            /\ Record.creator = created[1].creator
            /\ Record.collateral = created[1].collateral
            /\ Record.counter_offer = created[1].counter_offer
            /\ Record.expires = created[1].expires)
    /\ [][ (HasRecord /\ storage'.config # None
              /\ storage'.config[1].owner # Record.owner)
           => (req'.op = "transfer" /\ res'.ok) ]_vars

\* The record after a transfer: the owner is no longer the one created.
C14_Witness ==
    /\ HasRecord
    /\ created # None
    /\ Record.owner # created[1].owner
    /\ Record.collateral # <<>>
    /\ req.op = "transfer"
    /\ res.ok

\* C15 as stated: a create request against an instance that holds a record or
\* has been settled leaves the storage as it is.
C15_NoRecreate ==
    instantiated =>
       \A sender \in Addrs, funds \in FundsLists,
          counter_offer \in CoinLists, expires \in ExpiresValues :
          instantiate(storage, height, sender, funds, counter_offer, expires).storage
            = storage

\* C15 as amended: the record goes from present to absent only through a
\* successful exercise or reclaim, and from absent to present only through a
\* successful instantiate, which the runtime runs once; the instantiate
\* handler itself has no existence check, so a create request with expires
\* above the current height writes a fresh record whatever the storage holds.
C15_RecordLifecycle ==
    /\ [][ (HasRecord /\ storage'.config = None)
           => (req'.op \in {"execute", "burn"} /\ res'.ok) ]_vars
    /\ [][ (~HasRecord /\ storage'.config # None)
           => (req'.op = "instantiate" /\ res'.ok /\ ~instantiated) ]_vars
    /\ [](\A sender \in Addrs, funds \in FundsLists,
             counter_offer \in CoinLists, expires \in ExpiresValues :
             expires > height =>
                instantiate(storage, height, sender, funds, counter_offer, expires)
                    .storage.config
                  = Some(State(sender, sender, funds, counter_offer, expires)))

\* A settled instance at a height at which a create request would pass.
C15_Witness ==
    /\ settled
    /\ OnRecord("burn")
    /\ res.ok
    /\ ~HasRecord
    /\ height < MaxHeight

\* C16: a query leaves the storage as it was; with a record it returns
\* exactly the stored creator, owner, collateral, counter_offer and expires,
\* without one it fails with NotFound.
C16_QueryVerbatim ==
    req.op = "query" =>
       /\ storage = pre
       /\ HadRecord =>
            /\ res.ok
            /\ res.data = pre.config
            /\ res.data[1].creator = Record.creator
            /\ res.data[1].owner = Record.owner
            /\ res.data[1].collateral = Record.collateral
            /\ res.data[1].counter_offer = Record.counter_offer
            /\ res.data[1].expires = Record.expires
            /\ res.messages = <<>>
       /\ ~HadRecord => Rejected(<<"NotFound">>)

\* A query of a transferred option.
C16_Witness ==
    /\ OnRecord("query")
    /\ res.ok
    /\ PreState.owner # PreState.creator
    /\ PreState.collateral # PreState.counter_offer

Denominations == { c.denom : c \in Coins }

\* The coins of a sequence of BankMsg::Send, one after another.
RECURSIVE CoinsOf(_)
CoinsOf(messages) ==
    IF messages = <<>> THEN <<>>
    ELSE Head(messages).amount \o CoinsOf(Tail(messages))

\* The total amount of one denomination in a list of coins.
RECURSIVE AmountOf(_, _)
AmountOf(coins, denom) ==
    IF coins = <<>> THEN 0
    ELSE (IF Head(coins).denom = denom THEN Head(coins).amount ELSE 0)
         + AmountOf(Tail(coins), denom)

\* C18: over the whole run the transfers emitted are none, or the one of a
\* reclaim (collateral to the creator), or the two of an exercise
\* (counter-offer to the creator, collateral to an owner): the collateral is
\* paid out at most once, the counter-offer at most once and to the creator,
\* and per denomination the emitted assets do not exceed the funds received
\* with the successful create and exercise.
C18_PaidOnce ==
    /\ ~settled => emitted = <<>>
    /\ settled =>
         /\ created # None
         /\ \/ emitted = << BankSend(created[1].creator, created[1].collateral) >>
            \/ \E owner \in Addrs :
                 emitted = << BankSend(created[1].creator, created[1].counter_offer),
                              BankSend(owner, created[1].collateral) >>
    /\ \A denom \in Denominations :
         AmountOf(CoinsOf(emitted), denom) <= AmountOf(received, denom)

\* An exercised option: both assets have left, the collateral to a later owner.
C18_Witness ==
    /\ settled
    /\ Len(emitted) = 2
    /\ emitted[2].to_address # emitted[1].to_address
    /\ emitted[1].amount # <<>>
    /\ emitted[2].amount # <<>>
    /\ req.op = "burn"
    /\ ~res.ok

\* C20: a transfer by the owner to a well-formed recipient succeeds at every
\* height, at or past expires included, and does not change the transfer a
\* reclaim emits: the collateral still goes to the creator.
C20_TransferAfterExpiry ==
    ( /\ OnRecord("transfer")
      /\ req.sender = PreState.owner
      /\ req.recipient \in Addrs )
    => /\ res.ok
       /\ HasRecord
       /\ Record.owner = req.recipient
       /\ \A h \in 0..MaxHeight, sender \in Addrs :
            /\ execute_burn(storage, h, sender).result
                 = execute_burn(pre, h, sender).result
            /\ h >= Record.expires =>
                 execute_burn(storage, h, sender).result.messages
                   = << BankSend(created[1].creator, created[1].collateral) >>

\* An expired, unreclaimed option is handed to a third party.
C20_Witness ==
    /\ OnRecord("transfer")
    /\ res.ok
    /\ req.height >= PreState.expires
    /\ req.recipient # PreState.owner
    /\ req.recipient # PreState.creator
    /\ PreState.collateral # <<>>

\* The collateral has been emitted to the creator or to the last owner.
CollateralReleased ==
    /\ emitted # <<>>
    /\ emitted[Len(emitted)].amount = created[1].collateral
    /\ emitted[Len(emitted)].to_address \in Addrs

\* C19: with the height advancing and a reclaim eventually submitted, every
\* state with a record is followed by a state in which the record is deleted
\* and the collateral has been emitted, whatever transfers, failed exercises
\* and failed reclaims come in between.
C19_EventuallySettled ==
    HasRecord ~> (settled /\ ~HasRecord /\ CollateralReleased)

\* An option that was transferred and then left to lapse is reclaimed.
C19_Witness ==
    /\ OnRecord("burn")
    /\ res.ok
    /\ settled
    /\ ~HasRecord
    /\ PreState.owner # PreState.creator
    /\ CollateralReleased

====
